---- MODULE Spec2Model ----
(***************************************************************************)
(* Model of pulseaudio-source-listener (src/src/main.rs).                  *)
(*                                                                         *)
(* Two threads of control: the consumer thread running main(), and the     *)
(* PulseAudio threaded mainloop, which invokes the registered callbacks    *)
(* whenever the mainloop lock is not held by the consumer.  The daemon is  *)
(* an external process whose sources and default source change freely.     *)
(***************************************************************************)
EXTENDS Integers, Sequences, FiniteSets, TLC

\* ------------------------------------------------------------------ bounds
MaxChanges == 3          \* number of changes the daemon makes in one run

\* ------------------------------------------------------------- value sets
Ids == {1, 2}                          \* PulseAudio source indexes
Names == {"mic", "headset"}            \* names the daemon gives to sources
NoName == "<null>"                     \* item.name == None
DaemonNames == Names \cup {NoName}
NoDefault == "<no default>"            \* server_info.default_source_name == None

SourceDatum == [name : Names \cup {"unknown"}, mute : BOOLEAN]

EmptySources == [i \in {} |-> [name |-> "unknown", mute |-> FALSE]]

\* variant: an insertion replaces the whole map
InsertReplacing(m, k, v) == [i \in {k} |-> v]

\* HashMap::insert: the value of an existing key is overwritten
Insert(m, k, v) == [i \in (DOMAIN m) \cup {k} |-> IF i = k THEN v ELSE m[i]]

Remove(m, k) == [i \in (DOMAIN m) \ {k} |-> m[i]]

\* the messages a callback forwards into a request-scoped channel
Msg(t, id, name, mute) == [t |-> t, id |-> id, name |-> name, mute |-> mute]
Done == Msg("Done", 0, "", FALSE)
ErrMsg == Msg("Err", 0, "Failed to retrieve ListResult", FALSE)
Dropped == Msg("Dropped", 0, "", FALSE)   \* the closure is freed uninvoked

VARIABLES
    pc,                 \* position of the consumer thread
    result,             \* how main() ended ("running" while it has not)
    locked,             \* the consumer holds the mainloop lock
    started,            \* the mainloop thread is running
    ctxState,           \* pulse::context::State of the connection
    stateCb,            \* a state callback is registered
    conn_rx,            \* number of signals queued in connect_to_server's channel
    seenState,          \* the state connect_to_server read last ("none": not read yet)
    dSources,           \* daemon: its sources, index -> (name, mute)
    dDefault,           \* daemon: default source name, or NoDefault
    changes,            \* daemon: number of changes made so far
    subscribed,         \* daemon: the subscription mask is installed
    subCb,              \* the subscribe callback is registered
    notif,              \* notifications the mainloop has still to dispatch
    rx,                 \* subscribe_source_mute's channel of Facility values
    reply,              \* callback invocations the mainloop still owes the pending request
    src_rx,             \* the request-scoped channel (get_sources / find_default_source_name)
    src_tx,             \* the sender of that channel is still alive
    local,              \* get_sources' HashMap under construction
    enumerated,         \* the items the daemon enumerated for the last list request
    caller,             \* who called the running query: "new", "server", "source"
    default_source_name,\* get_default_source_index's local
    resolution,         \* outcome of the pass's default resolution
    sources,            \* ListenerState.sources
    default_source,     \* ListenerState.default_source
    old_default_mute,   \* the loop's local, Option<bool>
    event_type,         \* the event the running pass received
    written,            \* lines printed by the current (or last) pass
    emitted,            \* history: every Facility the subscribe callback has sent
    consumed,           \* history: every Facility the loop has received
    passes,             \* history: number of completed reconciliation passes
    lastLine            \* history: the line printed most recently ("none": no line yet)

vars == <<pc, result, locked, started, ctxState, stateCb, conn_rx, seenState,
          dSources, dDefault, changes, subscribed, subCb, notif, rx,
          reply, src_rx, src_tx, local, enumerated, caller,
          default_source_name, resolution, sources, default_source,
          old_default_mute, event_type, written,
          emitted, consumed, passes, lastLine>>

connVars == <<started, ctxState, stateCb, conn_rx, seenState>>
daemonVars == <<dSources, dDefault, changes>>
subVars == <<subscribed, subCb, notif, rx>>
queryVars == <<reply, src_rx, src_tx, local, enumerated>>
stateVars == <<sources, default_source>>
histVars == <<emitted, consumed, passes, lastLine>>
passVars == <<old_default_mute, event_type, written, histVars>>
resVars == <<caller, default_source_name, resolution>>

\* the daemon states the program may be started against
InitDaemon ==
    { <<[i \in {1} |-> [name |-> "mic", mute |-> FALSE]], "mic">>,
      <<[i \in {1, 2} |-> IF i = 1 THEN [name |-> "mic", mute |-> FALSE]
                                   ELSE [name |-> "headset", mute |-> TRUE]], "mic">> }

Init ==
    /\ pc = "ct_lock"
    /\ result = "running"
    /\ locked = FALSE
    /\ started = FALSE
    /\ ctxState = "Unconnected"
    /\ stateCb = FALSE
    /\ conn_rx = 0
    /\ seenState = "none"
    /\ \E d \in InitDaemon : dSources = d[1] /\ dDefault = d[2]
    /\ changes = 0
    /\ subscribed = FALSE
    /\ subCb = FALSE
    /\ notif = <<>>
    /\ rx = <<>>
    /\ reply = <<>>
    /\ src_rx = <<>>
    /\ src_tx = FALSE
    /\ local = EmptySources
    /\ enumerated = EmptySources
    /\ caller = "new"
    /\ default_source_name = ""
    /\ resolution = "none"
    /\ sources = EmptySources
    /\ default_source = 0
    /\ old_default_mute = "None"
    /\ event_type = "none"
    /\ written = <<>>
    /\ emitted = <<>>
    /\ consumed = <<>>
    /\ passes = 0
    /\ lastLine = "none"

\* main() returns (or panics) with outcome r
Exit(r) == pc' = "exit" /\ result' = r

\* =========================================================== connect_to_server
NonTerminal == {"Unconnected", "Connecting", "Authorizing", "SettingName"}

\* variant: SettingName is taken for Ready
ConnectMatchEarly(s) ==
    CASE s \in NonTerminal \ {"SettingName"} -> "ct_recv"
      [] s \in {"SettingName", "Ready"}      -> "ct_dereg"
      [] s = "Failed"                        -> "Context connect failed"
      [] s = "Terminated"                    -> "Context terminated"

\* the match on context.get_state(): where connect_to_server goes next
ConnectMatch(s) ==
    CASE s \in NonTerminal -> "ct_recv"
      [] s = "Ready"       -> "ct_dereg"
      [] s = "Failed"      -> "Context connect failed"
      [] s = "Terminated"  -> "Context terminated"

ConnectLock ==
    /\ pc = "ct_lock" /\ ~locked
    /\ locked' = TRUE
    /\ pc' = "ct_register"
    /\ UNCHANGED <<result, connVars, daemonVars, subVars, queryVars, stateVars, passVars, resVars>>

ConnectRegister ==
    /\ pc = "ct_register"
    /\ stateCb' = TRUE
    /\ pc' = "ct_connect"
    /\ UNCHANGED <<result, locked, started, ctxState, conn_rx, seenState,
                   daemonVars, subVars, queryVars, stateVars, passVars, resVars>>

\* context.connect(): moves the context to Connecting, which runs the state
\* callback on the calling thread; or fails, and `?` returns with the lock held
ConnectCall ==
    /\ pc = "ct_connect"
    /\ \/ /\ ctxState' = "Connecting"
          /\ conn_rx' = conn_rx + 1
          /\ pc' = "ct_unlock"
          /\ UNCHANGED result
       \/ /\ Exit("connect error")
          /\ UNCHANGED <<ctxState, conn_rx>>
    /\ UNCHANGED <<locked, started, stateCb, seenState,
                   daemonVars, subVars, queryVars, stateVars, passVars, resVars>>

ConnectUnlock ==
    /\ pc = "ct_unlock"
    /\ locked' = FALSE
    /\ pc' = "ct_start"
    /\ UNCHANGED <<result, connVars, daemonVars, subVars, queryVars, stateVars, passVars, resVars>>

ConnectStart ==
    /\ pc = "ct_start"
    /\ \/ started' = TRUE /\ pc' = "ct_recv" /\ UNCHANGED result
       \/ Exit("mainloop start error") /\ UNCHANGED started
    /\ UNCHANGED <<locked, ctxState, stateCb, conn_rx, seenState,
                   daemonVars, subVars, queryVars, stateVars, passVars, resVars>>

\* rx.recv(): blocks until the state callback has signalled
ConnectRecv ==
    /\ pc = "ct_recv"
    /\ conn_rx > 0
    /\ conn_rx' = conn_rx - 1
    /\ pc' = "ct_get_state"
    /\ UNCHANGED <<result, locked, started, ctxState, stateCb, seenState,
                   daemonVars, subVars, queryVars, stateVars, passVars, resVars>>

\* context.get_state() and the match on it
ConnectGetState ==
    /\ pc = "ct_get_state"
    /\ seenState' = ctxState
    /\ LET next == ConnectMatch(ctxState) IN
         IF next \in {"ct_recv", "ct_dereg"}
         THEN pc' = next /\ UNCHANGED result
         ELSE Exit(next)
    /\ UNCHANGED <<locked, started, ctxState, stateCb, conn_rx,
                   daemonVars, subVars, queryVars, stateVars, passVars, resVars>>

\* set_state_callback(None); Ok(()) -- main goes on to ListenerState::new
ConnectDeregister ==
    /\ pc = "ct_dereg"
    /\ stateCb' = FALSE
    /\ conn_rx' = 0                 \* rx goes out of scope with its backlog
    /\ caller' = "new"
    /\ pc' = "gs_lock"
    /\ UNCHANGED <<result, locked, started, ctxState, seenState,
                   daemonVars, subVars, queryVars, stateVars, passVars,
                   default_source_name, resolution>>

\* the connection's lifecycle, advanced by the mainloop thread; every
\* transition runs the state callback if one is registered
CtxNext(s) ==
    CASE s = "Connecting"  -> {"Authorizing", "Failed"}
      [] s = "Authorizing" -> {"SettingName", "Failed"}
      [] s = "SettingName" -> {"Ready", "Failed"}
      [] s = "Ready"       -> {"Failed", "Terminated"}
      [] OTHER             -> {}

\* variant: the state changes without the callback's send
StateCallbackSilent ==
    /\ started /\ ~locked
    /\ stateCb
    /\ \E s \in CtxNext(ctxState) : ctxState' = s
    /\ UNCHANGED <<pc, result, locked, started, stateCb, conn_rx, seenState,
                   daemonVars, subVars, queryVars, stateVars, passVars, resVars>>

StateCallback ==
    /\ started /\ ~locked
    /\ stateCb
    /\ \E s \in CtxNext(ctxState) :
         /\ ctxState' = s
         /\ conn_rx' = conn_rx + 1
    /\ UNCHANGED <<pc, result, locked, started, stateCb, seenState,
                   daemonVars, subVars, queryVars, stateVars, passVars, resVars>>

\* ================================================================ get_sources
\* all orders in which the daemon may deliver the items of a set
Perms(S) == { p \in [1..Cardinality(S) -> S] : \A a, b \in DOMAIN p : p[a] = p[b] => a = b }

\* the callback's conversion of item.name: None becomes "unknown"
SourceName(n) == IF n = NoName THEN "unknown" ELSE n

\* the replies the daemon may give to get_source_info_list: the items of its
\* sources in some order and End; or, after any prefix of them, Error; or the
\* operation is cancelled and its closure freed before any reply
ItemsOf(p, n) ==
    [k \in 1..n |-> Msg("Item", p[k], dSources[p[k]].name, dSources[p[k]].mute)]

ListReplies ==
    { ItemsOf(p, Len(p)) \o <<Done>> : p \in Perms(DOMAIN dSources) }
    \cup { ItemsOf(x[1], x[2]) \o <<ErrMsg>> :
              x \in Perms(DOMAIN dSources) \X (0..Cardinality(DOMAIN dSources)) }
    \cup { <<Dropped>> }

GetSourcesLock ==
    /\ pc = "gs_lock" /\ ~locked
    /\ locked' = TRUE
    /\ pc' = "gs_request"
    /\ UNCHANGED <<result, connVars, daemonVars, subVars, queryVars, stateVars, passVars, resVars>>

\* introspector.get_source_info_list(callback); let mut sources = HashMap::new()
GetSourcesRequest ==
    /\ pc = "gs_request"
    /\ \E r \in ListReplies : reply' = r
    /\ enumerated' = dSources
    /\ src_rx' = <<>>
    /\ src_tx' = TRUE
    /\ local' = EmptySources
    /\ pc' = "gs_unlock"
    /\ UNCHANGED <<result, locked, connVars, daemonVars, subVars, stateVars, passVars, resVars>>

\* variant: get_sources goes on to recv() without releasing the lock
GetSourcesUnlockSkipped ==
    /\ pc = "gs_unlock"
    /\ pc' = "gs_recv"
    /\ UNCHANGED <<result, locked, connVars, daemonVars, subVars, queryVars, stateVars,
                   passVars, resVars>>

GetSourcesUnlock ==
    /\ pc = "gs_unlock"
    /\ locked' = FALSE
    /\ pc' = "gs_recv"
    /\ UNCHANGED <<result, connVars, daemonVars, subVars, queryVars, stateVars, passVars, resVars>>

\* the closure given to get_source_info_list, run by the mainloop thread
ListCallback ==
    /\ started /\ ~locked
    /\ reply # <<>>
    /\ Head(reply).t \in {"Item", "Done", "Err"}
    /\ LET m == Head(reply) IN
         src_rx' = Append(src_rx,
                     IF m.t = "Item" THEN Msg("Item", m.id, SourceName(m.name), m.mute) ELSE m)
    /\ reply' = Tail(reply)
    /\ UNCHANGED <<pc, result, locked, connVars, daemonVars, subVars, src_tx, local,
                   enumerated, stateVars, passVars, resVars>>

\* the pending closure is freed without being run: its Sender is dropped
CallbackDropped ==
    /\ started /\ ~locked
    /\ reply # <<>>
    /\ Head(reply).t = "Dropped"
    /\ src_tx' = FALSE
    /\ reply' = Tail(reply)
    /\ UNCHANGED <<pc, result, locked, connVars, daemonVars, subVars, src_rx, local,
                   enumerated, stateVars, passVars, resVars>>

\* src_rx.recv() yields an item: sources.insert(index, source)
GetSourcesItem ==
    /\ pc = "gs_recv"
    /\ src_rx # <<>>
    /\ Head(src_rx).t = "Item"
    /\ LET m == Head(src_rx) IN
         local' = Insert(local, m.id, [name |-> m.name, mute |-> m.mute])
    /\ src_rx' = Tail(src_rx)
    /\ UNCHANGED <<pc, result, locked, connVars, daemonVars, subVars, reply, src_tx,
                   enumerated, stateVars, passVars, resVars>>

\* variant: the enumeration is merged into the catalog held so far
GetSourcesOkPatched(s) ==
    /\ sources' = [i \in (DOMAIN sources) \cup (DOMAIN s) |->
                      IF i \in DOMAIN s THEN s[i] ELSE sources[i]]
    /\ pc' = IF caller = "new" THEN "fd_lock" ELSE "loop_emit"
    /\ UNCHANGED <<result, default_source>>

\* what the caller does with Ok(sources)
\*   ListenerState::new          : let sources = ...; goes on to get_default_source_index
\*   subscribe_source_mute's loop: state.sources = ...; goes on to the comparison
GetSourcesOk(s) ==
    /\ sources' = s
    /\ pc' = IF caller = "new" THEN "fd_lock" ELSE "loop_emit"
    /\ UNCHANGED <<result, default_source>>

\* variant: on Err the items received so far are returned as the catalog
GetSourcesErrPartial(e) ==
    /\ sources' = local
    /\ pc' = IF caller = "new" THEN "fd_lock" ELSE "loop_emit"
    /\ UNCHANGED <<result, default_source>>

\* what the caller does with Err: `?` in ListenerState::new, unwrap() in the loop
GetSourcesErr(e) ==
    /\ Exit(IF caller = "new" THEN e ELSE "panic: unwrap on Err")
    /\ UNCHANGED stateVars

\* src_rx.recv() yields Done: return Ok(sources)
GetSourcesDone ==
    /\ pc = "gs_recv"
    /\ src_rx # <<>>
    /\ Head(src_rx).t = "Done"
    /\ src_rx' = Tail(src_rx)
    /\ GetSourcesOk(local)
    /\ UNCHANGED <<locked, connVars, daemonVars, subVars, reply, src_tx, local,
                   enumerated, passVars, resVars>>

\* src_rx.recv() yields Err(msg), or fails because the Sender is gone
GetSourcesFail ==
    /\ pc = "gs_recv"
    /\ \/ /\ src_rx # <<>> /\ Head(src_rx).t = "Err"
          /\ src_rx' = Tail(src_rx)
          /\ GetSourcesErr(Head(src_rx).name)
       \/ /\ src_rx = <<>> /\ ~src_tx
          /\ src_rx' = src_rx
          /\ GetSourcesErr("RecvError")
    /\ UNCHANGED <<locked, connVars, daemonVars, subVars, reply, src_tx, local,
                   enumerated, passVars, resVars>>

\* =================================================== find_default_source_name
ServerInfoReplies ==
    { IF dDefault = NoDefault THEN Msg("NoDefault", 0, "", FALSE)
                              ELSE Msg("Default", 0, dDefault, FALSE),
      Dropped }

FindDefaultLock ==
    /\ pc = "fd_lock" /\ ~locked
    /\ locked' = TRUE
    /\ pc' = "fd_request"
    /\ UNCHANGED <<result, connVars, daemonVars, subVars, queryVars, stateVars, passVars, resVars>>

\* introspector.get_server_info(callback)
FindDefaultRequest ==
    /\ pc = "fd_request"
    /\ \E r \in ServerInfoReplies : reply' = <<r>>
    /\ src_rx' = <<>>
    /\ src_tx' = TRUE
    /\ pc' = "fd_unlock"
    /\ UNCHANGED <<result, locked, connVars, daemonVars, subVars, local, enumerated,
                   stateVars, passVars, resVars>>

FindDefaultUnlock ==
    /\ pc = "fd_unlock"
    /\ locked' = FALSE
    /\ pc' = "fd_recv"
    /\ UNCHANGED <<result, connVars, daemonVars, subVars, queryVars, stateVars, passVars, resVars>>

\* the closure given to get_server_info, run by the mainloop thread
ServerInfoCallback ==
    /\ started /\ ~locked
    /\ reply # <<>>
    /\ Head(reply).t \in {"NoDefault", "Default"}
    /\ src_rx' = Append(src_rx, Head(reply))
    /\ reply' = Tail(reply)
    /\ UNCHANGED <<pc, result, locked, connVars, daemonVars, subVars, src_tx, local,
                   enumerated, stateVars, passVars, resVars>>

\* the String find_default_source_name returns for a received message
DefaultSourceName(m) ==
    IF m.t = "NoDefault" THEN "No default source" ELSE m.name

\* variant: the scan does not compare names
GetDefaultSourceIndexAnyName(srcs, name) ==
    IF \E i \in DOMAIN srcs : srcs[i].name = name THEN DOMAIN srcs ELSE {}

\* variant: a name borne by several records is not resolved
GetDefaultSourceIndexUnique(srcs, name) ==
    IF Cardinality({ i \in DOMAIN srcs : srcs[i].name = name }) = 1
    THEN { i \in DOMAIN srcs : srcs[i].name = name }
    ELSE {}

\* =================================================== get_default_source_index
\* the indexes the scan `for (index, source) in sources` may return: a HashMap
\* iterates in an unspecified order, so any record with the name may come
\* first; the empty set stands for Err("failed to set default source")
GetDefaultSourceIndex(srcs, name) ==
    { i \in DOMAIN srcs : srcs[i].name = name }

\* the resolution came back Ok(index):
\*   ListenerState::new  : the state is constructed, main calls subscribe_source_mute
\*   handle_server_change: state.default_source = index
ResolveOk(i) ==
    /\ default_source' = i
    /\ resolution' = "ok"
    /\ pc' = IF caller = "new" THEN "sub_lock" ELSE "gs_lock"
    /\ UNCHANGED <<result, sources>>

\* variant: ListenerState::new drops the error as the loop does and goes on
ResolveErrDropped(e, r) ==
    /\ resolution' = r
    /\ pc' = IF caller = "new" THEN "sub_lock" ELSE "gs_lock"
    /\ UNCHANGED <<result, stateVars>>

\* variant: the loop propagates the error of handle_server_change
ResolveErrPropagated(e, r) ==
    /\ resolution' = r
    /\ Exit(e)
    /\ UNCHANGED stateVars

\* the resolution came back Err(e):
\*   ListenerState::new    : `?` returns it from main
\*   subscribe_source_mute : `let _ = handle_server_change(..)` drops it
ResolveErr(e, r) ==
    /\ resolution' = r
    /\ IF caller = "new" THEN Exit(e) ELSE pc' = "gs_lock" /\ UNCHANGED result
    /\ UNCHANGED stateVars

\* src_rx.recv() yields the server's answer; the catalog is then scanned
ResolveDefault ==
    /\ pc = "fd_recv"
    /\ src_rx # <<>>
    /\ LET name == DefaultSourceName(Head(src_rx))
           found == GetDefaultSourceIndex(sources, name) IN
         /\ default_source_name' = name
         /\ IF found # {}
            THEN \E i \in found : ResolveOk(i)
            ELSE ResolveErr("failed to set default source", "nomatch")
    /\ src_rx' = Tail(src_rx)
    /\ UNCHANGED <<locked, connVars, daemonVars, subVars, reply, src_tx, local,
                   enumerated, caller, passVars>>

\* src_rx.recv() fails because the Sender is gone
ResolveRecvError ==
    /\ pc = "fd_recv"
    /\ src_rx = <<>> /\ ~src_tx
    /\ ResolveErr("RecvError", "error")
    /\ UNCHANGED <<locked, connVars, daemonVars, subVars, queryVars,
                   caller, default_source_name, passVars>>

\* ====================================================== subscribe_source_mute
SubscribeLock ==
    /\ pc = "sub_lock" /\ ~locked
    /\ locked' = TRUE
    /\ pc' = "sub_register"
    /\ UNCHANGED <<result, connVars, daemonVars, subVars, queryVars, stateVars, passVars, resVars>>

\* context.set_subscribe_callback(Some(..))
SubscribeRegister ==
    /\ pc = "sub_register"
    /\ subCb' = TRUE
    /\ pc' = "sub_subscribe"
    /\ UNCHANGED <<result, locked, connVars, daemonVars, subscribed, notif, rx,
                   queryVars, stateVars, passVars, resVars>>

\* context.subscribe(SOURCE | SERVER, ..)
SubscribeRequest ==
    /\ pc = "sub_subscribe"
    /\ subscribed' = TRUE
    /\ pc' = "sub_unlock"
    /\ UNCHANGED <<result, locked, connVars, daemonVars, subCb, notif, rx,
                   queryVars, stateVars, passVars, resVars>>

SubscribeUnlock ==
    /\ pc = "sub_unlock"
    /\ locked' = FALSE
    /\ pc' = "loop_top"
    /\ UNCHANGED <<result, connVars, daemonVars, subVars, queryVars, stateVars, passVars, resVars>>

\* variant: every device-domain notification is forwarded
ClassifyEveryDeviceEvent(facility, operation) ==
    CASE facility = "Source" -> "Source"
      [] facility = "Server" -> "Server"
      [] OTHER               -> "none"

\* what the subscribe callback sends for a notification ("none": nothing)
Classify(facility, operation) ==
    CASE facility = "Source" /\ operation = "Changed" -> "Source"
      [] facility = "Source" /\ operation # "Changed" -> "none"
      [] facility = "Server"                          -> "Server"
      [] OTHER                                        -> "none"

\* the subscribe callback, run by the mainloop thread
SubscribeCallback ==
    /\ started /\ ~locked
    /\ subCb
    /\ notif # <<>>
    /\ LET c == Classify(Head(notif)[1], Head(notif)[2]) IN
         /\ rx' = IF c = "none" THEN rx ELSE Append(rx, c)
         /\ emitted' = IF c = "none" THEN emitted ELSE Append(emitted, c)
    /\ notif' = Tail(notif)
    /\ UNCHANGED <<pc, result, locked, connVars, daemonVars, subscribed, subCb,
                   queryVars, stateVars, old_default_mute, event_type, written,
                   consumed, passes, lastLine, resVars>>

\* ListenerState::default_source, mapped to its mute flag: Option<bool>
DefaultMute(srcs, d) ==
    IF d \in DOMAIN srcs
    THEN (IF srcs[d].mute THEN "Some(true)" ELSE "Some(false)")
    ELSE "None"

\* variant: the two tokens are exchanged
PrintlnSwapped(new, old) ==
    IF new # "None"
    THEN IF new # old
         THEN <<IF new = "Some(true)" THEN "UNMUTED" ELSE "MUTED">>
         ELSE <<>>
    ELSE <<"No default source">>

\* variant: the mute state is printed without comparing it with the old one
PrintlnEveryPass(new, old) ==
    IF new # "None"
    THEN <<IF new = "Some(true)" THEN "MUTED" ELSE "UNMUTED">>
    ELSE <<"No default source">>

\* the lines the end of an iteration prints
Println(new, old) ==
    IF new # "None"
    THEN IF new # old
         THEN <<IF new = "Some(true)" THEN "MUTED" ELSE "UNMUTED">>
         ELSE <<>>
    ELSE <<"No default source">>

\* let old_default_mute = ...
LoopTop ==
    /\ pc = "loop_top"
    /\ old_default_mute' = DefaultMute(sources, default_source)
    /\ pc' = "loop_recv"
    /\ UNCHANGED <<result, locked, connVars, daemonVars, subVars, queryVars, stateVars,
                   event_type, written, histVars, resVars>>

\* variant: the loop takes the newest message of the channel
LoopRecvNewest ==
    /\ pc = "loop_recv"
    /\ rx # <<>>
    /\ event_type' = rx[Len(rx)]
    /\ consumed' = Append(consumed, rx[Len(rx)])
    /\ rx' = SubSeq(rx, 1, Len(rx) - 1)
    /\ written' = <<>>
    /\ resolution' = "none"
    /\ caller' = IF rx[Len(rx)] = "Server" THEN "server" ELSE "source"
    /\ pc' = IF rx[Len(rx)] = "Server" THEN "fd_lock" ELSE "gs_lock"
    /\ UNCHANGED <<result, locked, connVars, daemonVars, subscribed, subCb, notif,
                   queryVars, stateVars, old_default_mute, default_source_name,
                   emitted, passes, lastLine>>

\* variant: every event goes through handle_server_change
LoopRecvAlwaysResolves ==
    /\ pc = "loop_recv"
    /\ rx # <<>>
    /\ event_type' = Head(rx)
    /\ consumed' = Append(consumed, Head(rx))
    /\ rx' = Tail(rx)
    /\ written' = <<>>
    /\ resolution' = "none"
    /\ caller' = IF Head(rx) = "Server" THEN "server" ELSE "source"
    /\ pc' = "fd_lock"
    /\ UNCHANGED <<result, locked, connVars, daemonVars, subscribed, subCb, notif,
                   queryVars, stateVars, old_default_mute, default_source_name,
                   emitted, passes, lastLine>>

\* let event_type = rx.recv()?; the Sender lives in the registered callback,
\* so the receive blocks while the channel is empty
LoopRecv ==
    /\ pc = "loop_recv"
    /\ rx # <<>>
    /\ event_type' = Head(rx)
    /\ consumed' = Append(consumed, Head(rx))
    /\ rx' = Tail(rx)
    /\ written' = <<>>
    /\ resolution' = "none"
    /\ caller' = IF Head(rx) = "Server" THEN "server" ELSE "source"
    /\ pc' = IF Head(rx) = "Server" THEN "fd_lock" ELSE "gs_lock"
    /\ UNCHANGED <<result, locked, connVars, daemonVars, subscribed, subCb, notif,
                   queryVars, stateVars, old_default_mute, default_source_name,
                   emitted, passes, lastLine>>

\* if let Some(new_src) = state.default_source() { .. } else { .. }
LoopEmit ==
    /\ pc = "loop_emit"
    /\ LET lines == Println(DefaultMute(sources, default_source), old_default_mute) IN
         /\ written' = lines
         /\ lastLine' = IF lines = <<>> THEN lastLine ELSE lines[Len(lines)]
    /\ passes' = passes + 1
    /\ pc' = "loop_top"
    /\ UNCHANGED <<result, locked, connVars, daemonVars, subVars, queryVars, stateVars,
                   old_default_mute, event_type, emitted, consumed, resVars>>

\* ================================================================= the daemon
\* The client sees the daemon only through the replies to its requests and
\* through notifications, so a change of the daemon is taken where the consumer
\* is about to issue a request or is waiting for an event: a change made while
\* the consumer runs local code is the same change made at the next such point.
DaemonPoints == {"gs_lock", "fd_lock", "sub_lock", "loop_recv"}

DaemonActive == pc \in DaemonPoints /\ changes < MaxChanges

\* a subscribed client is sent a notification for every change
Notify(facility, operation) ==
    notif' = IF subscribed THEN Append(notif, <<facility, operation>>) ELSE notif

DaemonUnchanged ==
    UNCHANGED <<pc, result, locked, connVars, subscribed, subCb, rx, queryVars,
                stateVars, passVars, resVars>>

DaemonSetMute ==
    /\ DaemonActive
    /\ \E i \in DOMAIN dSources :
         dSources' = [dSources EXCEPT ![i].mute = ~dSources[i].mute]
    /\ changes' = changes + 1
    /\ Notify("Source", "Changed")
    /\ UNCHANGED dDefault
    /\ DaemonUnchanged

DaemonNewSource ==
    /\ DaemonActive
    /\ \E i \in Ids \ DOMAIN dSources, n \in DaemonNames, m \in BOOLEAN :
         dSources' = Insert(dSources, i, [name |-> n, mute |-> m])
    /\ changes' = changes + 1
    /\ Notify("Source", "New")
    /\ UNCHANGED dDefault
    /\ DaemonUnchanged

DaemonRemoveSource ==
    /\ DaemonActive
    /\ \E i \in DOMAIN dSources : dSources' = Remove(dSources, i)
    /\ changes' = changes + 1
    /\ Notify("Source", "Removed")
    /\ UNCHANGED dDefault
    /\ DaemonUnchanged

DaemonSetDefault ==
    /\ DaemonActive
    /\ \E n \in Names \cup {NoDefault} : dDefault' = n
    /\ changes' = changes + 1
    /\ Notify("Server", "Changed")
    /\ UNCHANGED dSources
    /\ DaemonUnchanged

\* a change in a domain the client did not ask for but may still be told of
DaemonOtherChange ==
    /\ DaemonActive
    /\ changes' = changes + 1
    /\ Notify("Sink", "Changed")
    /\ UNCHANGED <<dSources, dDefault>>
    /\ DaemonUnchanged

\* ============================================================== specification
Next ==
    \/ ConnectLock \/ ConnectRegister \/ ConnectCall \/ ConnectUnlock
    \/ ConnectStart \/ ConnectRecv \/ ConnectGetState \/ ConnectDeregister
    \/ StateCallback
    \/ GetSourcesLock \/ GetSourcesRequest \/ GetSourcesUnlock
    \/ ListCallback \/ CallbackDropped
    \/ GetSourcesItem \/ GetSourcesDone \/ GetSourcesFail
    \/ FindDefaultLock \/ FindDefaultRequest \/ FindDefaultUnlock
    \/ ServerInfoCallback \/ ResolveDefault \/ ResolveRecvError
    \/ SubscribeLock \/ SubscribeRegister \/ SubscribeRequest \/ SubscribeUnlock
    \/ SubscribeCallback
    \/ LoopTop \/ LoopRecv \/ LoopEmit
    \/ DaemonSetMute \/ DaemonNewSource \/ DaemonRemoveSource
    \/ DaemonSetDefault \/ DaemonOtherChange

Spec == Init /\ [][Next]_vars

\* ========================================================= the connection alone
\* connect_to_server up to its return; the consumer thread is scheduled fairly,
\* the progress of the connection is left to the daemon
ConnectStep ==
    \/ ConnectLock \/ ConnectRegister \/ ConnectCall \/ ConnectUnlock
    \/ ConnectStart \/ ConnectRecv \/ ConnectGetState \/ ConnectDeregister

NextConnect == ConnectStep \/ StateCallback

SpecConnect == Init /\ [][NextConnect]_vars /\ WF_vars(ConnectStep)

\* ============================================================== fair scheduling
\* the whole program with both threads scheduled fairly: the consumer thread
\* takes its next step when it can, the mainloop thread runs the callbacks of
\* what has arrived when the lock is free; the daemon changes when it likes,
\* a bounded number of times
MaxLiveChanges == 2

ConsumerStep ==
    \/ ConnectStep
    \/ GetSourcesLock \/ GetSourcesRequest \/ GetSourcesUnlock
    \/ GetSourcesItem \/ GetSourcesDone \/ GetSourcesFail
    \/ FindDefaultLock \/ FindDefaultRequest \/ FindDefaultUnlock
    \/ ResolveDefault \/ ResolveRecvError
    \/ SubscribeLock \/ SubscribeRegister \/ SubscribeRequest \/ SubscribeUnlock
    \/ LoopTop \/ LoopRecv \/ LoopEmit

MainloopDelivery ==
    ListCallback \/ CallbackDropped \/ ServerInfoCallback \/ SubscribeCallback

DaemonStep ==
    /\ changes < MaxLiveChanges
    /\ \/ DaemonSetMute \/ DaemonNewSource \/ DaemonRemoveSource
       \/ DaemonSetDefault \/ DaemonOtherChange

NextLive == ConsumerStep \/ MainloopDelivery \/ StateCallback \/ DaemonStep

SpecLive ==
    Init /\ [][NextLive]_vars /\ WF_vars(ConsumerStep) /\ WF_vars(MainloopDelivery)

\* ====================================================== default resolution alone
\* get_default_source_index applied to every catalog and every answer of the
\* server, in the position handle_server_change or ListenerState::new calls it
AllCatalogs ==
    UNION { [D -> [name : Names, mute : BOOLEAN]] : D \in SUBSET Ids }

InitResolve ==
    /\ pc = "fd_recv"
    /\ result = "running"
    /\ locked = FALSE
    /\ started = TRUE
    /\ ctxState = "Ready"
    /\ stateCb = FALSE
    /\ conn_rx = 0
    /\ seenState = "Ready"
    /\ dSources = EmptySources
    /\ dDefault \in Names \cup {NoDefault}
    /\ changes = 0
    /\ subscribed = FALSE
    /\ subCb = FALSE
    /\ notif = <<>>
    /\ rx = <<>>
    /\ reply = <<>>
    /\ src_rx = << IF dDefault = NoDefault THEN Msg("NoDefault", 0, "", FALSE)
                                           ELSE Msg("Default", 0, dDefault, FALSE) >>
    /\ src_tx = TRUE
    /\ local = EmptySources
    /\ enumerated = EmptySources
    /\ caller \in {"new", "server"}
    /\ default_source_name = ""
    /\ resolution = "none"
    /\ sources \in AllCatalogs
    /\ default_source = 0
    /\ old_default_mute = "None"
    /\ event_type = "none"
    /\ written = <<>>
    /\ emitted = <<>>
    /\ consumed = <<>>
    /\ passes = 0
    /\ lastLine = "none"

NextResolve == ResolveDefault

SpecResolve == InitResolve /\ [][NextResolve]_vars

\* ============================================ re-enumeration of an unchanged daemon
\* a change of a source that touches neither its name nor its mute flag (its
\* volume, say): the client is notified, the enumeration stays what it was
DaemonVolumeChange ==
    /\ DaemonActive
    /\ dSources # EmptySources
    /\ changes' = changes + 1
    /\ Notify("Source", "Changed")
    /\ UNCHANGED <<dSources, dDefault>>
    /\ DaemonUnchanged

\* the program run against a daemon whose sources and default never change
NextUnchanged ==
    \/ ConnectLock \/ ConnectRegister \/ ConnectCall \/ ConnectUnlock
    \/ ConnectStart \/ ConnectRecv \/ ConnectGetState \/ ConnectDeregister
    \/ StateCallback
    \/ GetSourcesLock \/ GetSourcesRequest \/ GetSourcesUnlock
    \/ ListCallback \/ CallbackDropped
    \/ GetSourcesItem \/ GetSourcesDone \/ GetSourcesFail
    \/ FindDefaultLock \/ FindDefaultRequest \/ FindDefaultUnlock
    \/ ServerInfoCallback \/ ResolveDefault \/ ResolveRecvError
    \/ SubscribeLock \/ SubscribeRegister \/ SubscribeRequest \/ SubscribeUnlock
    \/ SubscribeCallback
    \/ LoopTop \/ LoopRecv \/ LoopEmit
    \/ DaemonVolumeChange

SpecUnchanged == Init /\ [][NextUnchanged]_vars

\* ================================================= the subscribe callback alone
\* the callback applied to every short backlog of notifications, of any domain
\* and operation, while the loop waits for its first event
Facilities == {"Source", "Server", "Sink"}
Operations == {"Changed", "New", "Removed"}
MaxBacklog == 2

Backlogs == UNION { [1..n -> Facilities \X Operations] : n \in 0..MaxBacklog }

MicOnly == [i \in {1} |-> [name |-> "mic", mute |-> FALSE]]

InitClassify ==
    /\ pc = "loop_recv"
    /\ result = "running"
    /\ locked = FALSE
    /\ started = TRUE
    /\ ctxState = "Ready"
    /\ stateCb = FALSE
    /\ conn_rx = 0
    /\ seenState = "Ready"
    /\ dSources = MicOnly
    /\ dDefault = "mic"
    /\ changes = 0
    /\ subscribed = TRUE
    /\ subCb = TRUE
    /\ notif \in Backlogs
    /\ rx = <<>>
    /\ reply = <<>>
    /\ src_rx = <<>>
    /\ src_tx = TRUE
    /\ local = MicOnly
    /\ enumerated = MicOnly
    /\ caller = "new"
    /\ default_source_name = "mic"
    /\ resolution = "ok"
    /\ sources = MicOnly
    /\ default_source = 1
    /\ old_default_mute = "Some(false)"
    /\ event_type = "none"
    /\ written = <<>>
    /\ emitted = <<>>
    /\ consumed = <<>>
    /\ passes = 0
    /\ lastLine = "none"

NextClassify == SubscribeCallback

SpecClassify == InitClassify /\ [][NextClassify]_vars

\* ===================================================================== claims
TypeOK ==
    /\ locked \in BOOLEAN
    /\ DOMAIN sources \subseteq Ids
    /\ \A i \in DOMAIN sources : sources[i] \in SourceDatum
    /\ changes \in 0..MaxChanges
    /\ old_default_mute \in {"None", "Some(true)", "Some(false)"}

\* a reconciliation pass has just completed: old_default_mute is still the
\* status read before its event was received, written holds its lines
PassDone == pc = "loop_top" /\ event_type # "none"

\* the tri-state status of the default device held in the state
After == DefaultMute(sources, default_source)

\* the line that reports a status
LineFor(status) ==
    CASE status = "Some(true)"  -> "MUTED"
      [] status = "Some(false)" -> "UNMUTED"
      [] OTHER                  -> "No default source"

\* C1: a pass whose status after equals the status before writes no line,
\* also when there is no default both before and after.
C1_UnchangedWritesNothing ==
    (PassDone /\ After = old_default_mute) => written = <<>>

\* C2: a pass whose status after differs from the status before writes exactly
\* one line: MUTED, UNMUTED or the no-default notice, as the new status is.
C2_ChangeWritesOneLine ==
    (PassDone /\ After # old_default_mute) => written = <<LineFor(After)>>

C2_Witness ==
    /\ PassDone /\ After # old_default_mute
    /\ old_default_mute = "Some(true)" /\ written = <<"UNMUTED">>

\* C3: after any processed event the stored default id is a key of the
\* refreshed catalog (the state has no other way to hold an absent default).
C3_DefaultIsCatalogKey ==
    PassDone => default_source \in DOMAIN sources

\* C4: a ServerDomainChanged pass whose resolution finds no matching record
\* leaves the default absent and writes the no-default notice.
C4_NoMatchMeansNoDefault ==
    (PassDone /\ event_type = "Server" /\ resolution = "nomatch")
        => /\ result = "running"
           /\ After = "None"
           /\ written = <<"No default source">>

\* C5: in a ServerDomainChanged pass whose default name is the name of a
\* record of the catalog, the default id becomes the id of a record with that
\* name, and the line of the pass, if any, reports the status of that default
\* in the refreshed catalog.
ServerRefreshPcs == {"gs_lock", "gs_request", "gs_unlock", "gs_recv"}

C5_ServerChangeUsesNewDefault ==
    /\ (caller = "server" /\ resolution = "ok" /\ pc \in ServerRefreshPcs)
          => /\ default_source \in DOMAIN sources
             /\ sources[default_source].name = default_source_name
    /\ (PassDone /\ event_type = "Server" /\ resolution = "ok")
          => /\ written # <<>> => written = <<LineFor(After)>>
             /\ After # old_default_mute => written # <<>>

C5_Witness ==
    /\ PassDone /\ event_type = "Server" /\ resolution = "ok"
    /\ old_default_mute = "Some(false)"
    /\ default_source = 2 /\ default_source_name = "headset"
    /\ 1 \in DOMAIN sources /\ ~sources[1].mute
    /\ written = <<"MUTED">>

\* C6: after every pass the catalog is exactly what the daemon enumerated in
\* that pass, name and mute flag of every record included, and a
\* DeviceDomainChanged pass over a default with a flipped mute flag writes the
\* line of the new flag.
C6_CatalogIsEnumeration ==
    PassDone =>
        /\ DOMAIN sources = DOMAIN enumerated
        /\ \A i \in DOMAIN sources :
              /\ sources[i].name = (IF enumerated[i].name = NoName THEN "unknown"
                                                                   ELSE enumerated[i].name)
              /\ sources[i].mute = enumerated[i].mute
        /\ (event_type = "Source" /\ After \notin {"None", old_default_mute})
              => written = <<LineFor(After)>>

C6_Witness ==
    /\ PassDone /\ event_type = "Source"
    /\ old_default_mute = "Some(false)"
    /\ default_source = 1
    /\ sources = [i \in {1} |-> [name |-> "mic", mute |-> TRUE]]
    /\ written = <<"MUTED">>

\* C7: a failed re-query in steady state, of the catalog or of the default
\* source, ends the process.
C7_QueryFailureIsFatal ==
    (caller # "new" /\ resolution = "error") => pc = "exit"

\* C8: when get_sources receives the error marker it returns an error: the
\* consumer's next step ends the run, and the catalog of the state is left as
\* it was, whatever items came before the marker.
ErrorMarkerReceived ==
    pc = "gs_recv" /\ src_rx # <<>> /\ Head(src_rx).t = "Err"

C8_ErrorDiscardsPartialCatalog ==
    [][ ErrorMarkerReceived =>
          /\ sources' = sources
          /\ pc' # pc => (pc' = "exit" /\ result' # "running") ]_vars

C8_Witness ==
    /\ pc = "exit" /\ result = "panic: unwrap on Err"
    /\ Cardinality(DOMAIN local) = 2
    /\ DOMAIN sources # DOMAIN local

\* C9 as claimed: the resolution yields an id exactly when one and only one
\* record bears the default name.
NameMatches == { i \in DOMAIN sources : sources[i].name = dDefault }

Resolved == pc # "fd_recv"

C9_ExactlyOneMatch ==
    Resolved =>
        /\ resolution = "ok" <=> Cardinality(NameMatches) = 1
        /\ resolution = "ok" => default_source \in NameMatches

\* C9 as amended: the resolution yields an id exactly when at least one record
\* bears the default name, the id of one of those records; it yields none when
\* no record does, which is so when the daemon has no default.
C9_AtLeastOneMatch ==
    Resolved =>
        /\ resolution = "ok" <=> NameMatches # {}
        /\ resolution = "ok" => default_source \in NameMatches
        /\ resolution # "ok" => /\ resolution = "nomatch"
                                /\ default_source = 0
                                /\ (caller = "new" <=> pc = "exit")
        /\ dDefault = NoDefault => resolution = "nomatch"

C9_Witness ==
    /\ Resolved /\ resolution = "ok"
    /\ Cardinality(NameMatches) = 2

\* C10: connect_to_server returns Ok only after reading Ready, with the state
\* callback deregistered; reading Failed or Terminated returns the matching
\* error; reading any other state it goes back to wait for the next signal.
ConnectPcs == {"ct_lock", "ct_register", "ct_connect", "ct_unlock", "ct_start",
               "ct_recv", "ct_get_state", "ct_dereg"}

ConnectErrors == {"connect error", "mainloop start error",
                  "Context connect failed", "Context terminated"}

ConnectReturnedOk == pc \notin ConnectPcs /\ result \notin ConnectErrors

C10_ConnectOutcome ==
    /\ ConnectReturnedOk => (seenState = "Ready" /\ ~stateCb)
    /\ seenState = "Failed" => (pc = "exit" /\ result = "Context connect failed")
    /\ seenState = "Terminated" => (pc = "exit" /\ result = "Context terminated")
    /\ seenState \in NonTerminal => (pc \in {"ct_recv", "ct_get_state"} /\ result = "running")

C10_Witness ==
    /\ pc = "gs_lock" /\ caller = "new"
    /\ seenState = "Ready" /\ ~stateCb

\* C11: the subscribe callback sends one Source for a device-domain
\* notification with operation changed, one Server for a server-domain
\* notification of any operation, and nothing for any other notification.
ExpectedEmission(n) ==
    IF n[1] = "Source" /\ n[2] = "Changed" THEN <<"Source">>
    ELSE IF n[1] = "Server" THEN <<"Server">>
    ELSE <<>>

C11_CallbackClassification ==
    [][ (notif # <<>> /\ notif' = Tail(notif))
          => /\ rx' = rx \o ExpectedEmission(Head(notif))
             /\ emitted' = emitted \o ExpectedEmission(Head(notif)) ]_vars

C11_Witness ==
    /\ notif = <<>>
    /\ rx = <<"Server", "Source">>
    /\ emitted = rx

\* C12: the lock is held wherever a callback is registered or a request
\* issued, it is free wherever the consumer waits on a channel, and while it
\* is held no callback is run by the mainloop thread.
HeldPcs == {"ct_register", "ct_connect", "ct_unlock",
            "gs_request", "gs_unlock",
            "fd_request", "fd_unlock",
            "sub_register", "sub_subscribe", "sub_unlock"}

RecvPcs == {"ct_recv", "gs_recv", "fd_recv", "loop_recv"}

C12_LockDiscipline ==
    /\ [](/\ pc \in HeldPcs => locked
          /\ pc \in RecvPcs => ~locked)
    /\ [][ (locked /\ pc' = pc)
             => UNCHANGED <<conn_rx, ctxState, reply, src_rx, src_tx, notif, rx, emitted>> ]_vars

C12_Witness ==
    /\ pc = "gs_recv" /\ caller = "server"
    /\ ~locked
    /\ src_rx = <<>> /\ reply # <<>>
    /\ notif # <<>>

\* C13: when the resolution of ListenerState::new finds no record with the
\* daemon's default name, main returns the error: nothing is subscribed, the
\* loop is not entered and no line is written; so monitoring only ever begins
\* with a default id that is a key of the initial catalog.
MonitoringPcs == {"sub_lock", "sub_register", "sub_subscribe", "sub_unlock",
                  "loop_top", "loop_recv"}

C13_StartupNeedsDefault ==
    /\ (caller = "new" /\ resolution \in {"nomatch", "error"})
          => /\ pc = "exit" /\ result # "running"
             /\ ~subCb /\ ~subscribed
             /\ passes = 0 /\ written = <<>> /\ lastLine = "none"
    /\ (caller = "new" /\ pc \in MonitoringPcs)
          => /\ resolution = "ok"
             /\ default_source \in DOMAIN sources
             /\ sources[default_source].name = default_source_name

C13_Witness ==
    /\ pc = "exit" /\ result = "failed to set default source"
    /\ caller = "new" /\ resolution = "nomatch"
    /\ dDefault = NoDefault /\ default_source_name = "No default source"
    /\ sources # EmptySources

\* C14: while the daemon's sources do not change, every further run of
\* get_sources returns the catalog the previous run returned, in whatever
\* order the items are delivered.
C14_ListIsIdempotent ==
    [][ (pc = "gs_recv" /\ pc' = "loop_emit") => sources' = sources ]_vars

C14_Witness ==
    /\ pc = "loop_top" /\ passes = 2
    /\ Cardinality(DOMAIN sources) = 2
    /\ sources = enumerated

\* C15: the loop receives the events in the order the callback sent them, each
\* once, every received event starts one pass and no pass starts without one,
\* and the callback can always send.
C15_EventsInOrder ==
    /\ emitted = consumed \o rx
    /\ consumed # <<>> => event_type = consumed[Len(consumed)]
    /\ passes \in {Len(consumed) - 1, Len(consumed)}
    /\ pc \in {"loop_top", "loop_recv"} => passes = Len(consumed)
    /\ pc \in {"fd_lock", "fd_request", "fd_unlock", "fd_recv", "gs_lock", "gs_request",
               "gs_unlock", "gs_recv", "loop_emit"} /\ caller # "new"
          => passes = Len(consumed) - 1
    /\ (started /\ ~locked /\ subCb /\ notif # <<>>) => ENABLED SubscribeCallback

C15_Witness ==
    /\ pc = "loop_recv" /\ passes = 2
    /\ consumed = <<"Server", "Source">>
    /\ rx = <<"Server">>

\* C16: a DeviceDomainChanged pass never enters find_default_source_name, makes
\* no resolution and leaves the stored default id as it was.
FindDefaultPcs == {"fd_lock", "fd_request", "fd_unlock", "fd_recv"}

C16_DevicePassKeepsDefault ==
    /\ [](/\ caller = "source" => pc \notin FindDefaultPcs
          /\ (caller = "source" /\ event_type = "Source") => resolution = "none")
    /\ [][ caller' = "source" => default_source' = default_source ]_vars

C16_Witness ==
    /\ PassDone /\ event_type = "Source" /\ caller = "source"
    /\ default_source = 1
    /\ dDefault = "headset"
    /\ 2 \in DOMAIN sources /\ sources[2].name = "headset"
    /\ resolution = "none"

\* C17: after a ServerDomainChanged pass, if the daemon's default name is the
\* name of a record of the refreshed catalog, the default the comparison used
\* is a record with that name, also for a source the catalog held before the
\* pass did not contain.
C17_ServerPassFindsNewDevice ==
    (/\ PassDone /\ event_type = "Server"
     /\ resolution \in {"ok", "nomatch"}
     /\ \E i \in DOMAIN sources : sources[i].name = default_source_name)
        => /\ default_source \in DOMAIN sources
           /\ sources[default_source].name = default_source_name

\* C18: once a line has been written, at the end of every pass the line
\* written last reports the status of the default held in the state; and a
\* MUTED or UNMUTED line never repeats the line written before it.
C18_LastLineAgrees ==
    /\ [](PassDone /\ lastLine # "none" => lastLine = LineFor(After))
    /\ [][ (pc = "loop_emit" /\ pc' = "loop_top" /\ written' # <<>>)
             => /\ Len(written') = 1
                /\ lastLine' = written'[1]
                /\ written'[1] \in {"MUTED", "UNMUTED"} => written'[1] # lastLine ]_vars

C18_Witness ==
    /\ PassDone /\ passes = 3
    /\ written = <<>>
    /\ lastLine = "MUTED"
    /\ After = "Some(true)"

\* C20: if the connection reaches Ready, Failed or Terminated, each transition
\* having run the state callback once, connect_to_server returns.
ConnectReturned == pc \notin ConnectPcs

C20_ConnectReturns ==
    (<>(ctxState \in {"Ready", "Failed", "Terminated"})) => <>ConnectReturned

C20_Witness ==
    /\ pc = "exit" /\ result = "Context connect failed"
    /\ ctxState = "Failed" /\ seenState = "Failed"
    /\ conn_rx > 0

\* C19 as claimed: if every request is answered with a terminal message (End,
\* Error or the server's information), every event the callback sent is
\* followed by a completed pass.
NoReplyIs(kinds) == \A k \in 1..Len(reply) : reply[k].t \notin kinds

EveryEventGetsItsPass ==
    \A n \in 1..MaxLiveChanges : (Len(emitted) >= n) ~> (passes >= n)

C19_TerminalAnswerSuffices ==
    ([]NoReplyIs({"Dropped"})) => EveryEventGetsItsPass

\* C19 as amended: if every request is answered successfully (End, or the
\* server's information), every event the callback sent is followed by a
\* completed pass.
C19_SuccessfulAnswerSuffices ==
    ([]NoReplyIs({"Dropped", "Err"})) => EveryEventGetsItsPass

C19_Witness ==
    /\ pc = "loop_recv" /\ passes = 2 /\ Len(emitted) = 2
    /\ rx = <<>> /\ notif = <<>>
    /\ consumed = <<"Source", "Server">>
====
